---------------------------- MODULE Spec2Model ----------------------------
(***************************************************************************)
(* A model of the VS Code extension / server downloader:                   *)
(*   src/src/extension.rs  specifier parsing, marketplace resolution,      *)
(*                         extension download                              *)
(*   src/src/server.rs     server release download and extraction          *)
(*   src/src/main.rs       the two orchestrating loops                     *)
(* Strings are sequences of one-character strings, so that splitting,      *)
(* trimming and formatting are computed and not assumed.                   *)
(***************************************************************************)
EXTENDS Integers, Sequences, FiniteSets, TLC

(***************************************************************************)
(* Bounds of the model.                                                    *)
(***************************************************************************)
\* longest generated inline token (characters)
MaxLen == 7
\* longest list of version entries in a marketplace response
MaxVersions == 3
\* number of bytes of a downloaded artifact
BodyLen == 2
\* longest crafted list of input tokens
MaxTokens == 2

(***************************************************************************)
(* Option<T>                                                               *)
(***************************************************************************)
None == [some |-> FALSE, val |-> <<>>]
Some(v) == [some |-> TRUE, val |-> v]

(***************************************************************************)
(* Strings                                                                 *)
(***************************************************************************)
\* the characters of the model in byte order (String::cmp compares bytes)
CharOrder ==
  <<"\n", " ", "-", ".", "/", "0", "1", "2", "3", "4", "5", "6", "7", "8", "9",
    "=", "@", "[", "a", "b", "c", "d", "e", "f", "g", "h", "i", "j", "k", "l",
    "m", "n", "o", "p", "q", "r", "s", "t", "u", "v", "w", "x", "y", "z", "{",
    "~">>

Ord(c) == CHOOSE i \in 1..Len(CharOrder) : CharOrder[i] = c

\* all strings over alphabet A of length at most n
Strs(A, n) == UNION {[1..k -> A] : k \in 0..n}

RECURSIVE StrLess(_, _)
\* a < b as Rust compares Strings: lexicographic on bytes
StrLess(a, b) ==
  IF b = <<>> THEN FALSE
  ELSE IF a = <<>> THEN TRUE
  ELSE IF Head(a) = Head(b) THEN StrLess(Tail(a), Tail(b))
  ELSE Ord(Head(a)) < Ord(Head(b))

IsWhite(c) == c \in {" ", "\n"}

RECURSIVE TrimStart(_)
TrimStart(s) ==
  IF s # <<>> /\ IsWhite(Head(s)) THEN TrimStart(Tail(s)) ELSE s

RECURSIVE TrimEnd(_)
TrimEnd(s) ==
  IF s # <<>> /\ IsWhite(s[Len(s)]) THEN TrimEnd(SubSeq(s, 1, Len(s) - 1)) ELSE s

\* str::trim
Trim(s) == TrimEnd(TrimStart(s))

EndsWith(s, suf) ==
  Len(s) >= Len(suf) /\ SubSeq(s, Len(s) - Len(suf) + 1, Len(s)) = suf

StartsWith(s, pre) ==
  Len(s) >= Len(pre) /\ SubSeq(s, 1, Len(pre)) = pre

Vsix == <<".", "v", "s", "i", "x">>

\* str::strip_suffix(".vsix") with the fall-back to the line itself
StripVsix(s) ==
  IF EndsWith(s, Vsix) THEN SubSeq(s, 1, Len(s) - Len(Vsix)) ELSE s

\* the positions of a one-character mark in a line
Positions(line, mark) == {i \in 1..Len(line) : line[i] = mark}

Min(S) == CHOOSE x \in S : \A y \in S : x <= y
Max(S) == CHOOSE x \in S : \A y \in S : x >= y

\* a variant of Find that gives the last occurrence (str::rfind)
FindLast(line, mark) ==
  IF Positions(line, mark) = {} THEN 0 ELSE Max(Positions(line, mark))

\* str::find: the first occurrence
Find(line, mark) ==
  IF Positions(line, mark) = {} THEN 0 ELSE Min(Positions(line, mark))

\* a variant of strip_suffix that keeps the mark in the suffix (pos, not pos + mark.len())
strip_suffix_keep_mark(line, mark) ==
  IF Find(line, mark) = 0 THEN <<line, None>>
  ELSE <<SubSeq(line, 1, Find(line, mark) - 1),
         Some(SubSeq(line, Find(line, mark), Len(line)))>>

\* strip_suffix(line, mark) -> (prefix, Option<suffix>), split at the first mark
strip_suffix(line, mark) ==
  IF Find(line, mark) = 0 THEN <<line, None>>
  ELSE <<SubSeq(line, 1, Find(line, mark) - 1),
         Some(SubSeq(line, Find(line, mark) + 1, Len(line)))>>

\* str::split("\n")
RECURSIVE SplitLines(_)
SplitLines(s) ==
  IF Find(s, "\n") = 0 THEN <<s>>
  ELSE <<SubSeq(s, 1, Find(s, "\n") - 1)>>
         \o SplitLines(SubSeq(s, Find(s, "\n") + 1, Len(s)))

(***************************************************************************)
(* Extension specifiers                                                    *)
(***************************************************************************)
Extension(publisher, package, version, platform) ==
  [publisher |-> publisher, package |-> package,
   version |-> version, platform |-> platform]

\* get_extension_name(publisher, package, version, platform)
get_extension_name(publisher, package, version, platform) ==
  LET n1 == publisher \o <<".">> \o package
      n2 == IF version.some THEN n1 \o <<"@">> \o version.val ELSE n1
  IN  IF platform.some THEN n2 \o <<"=">> \o platform.val ELSE n2

\* Extension::get_extension_name
ExtName(e) == get_extension_name(e.publisher, e.package, e.version, e.platform)

\* parse_ext_line -> Option<Extension>
parse_ext_line(ext_line) ==
  LET line == StripVsix(Trim(ext_line))
      s1 == strip_suffix(line, "=")
      s2 == strip_suffix(s1[1], "@")
      s3 == strip_suffix(s2[1], ".")
  IN  IF ~s3[2].some THEN None
      ELSE Some(Extension(s3[1], s3[2].val, s2[2], s1[2]))

(***************************************************************************)
(* JSON values (serde_json::Value), as far as the parser looks at them     *)
(***************************************************************************)
JStr(s) == [t |-> "string", s |-> s]
JObj(o) == [t |-> "object", o |-> o]
JArr(a) == [t |-> "array", a |-> a]
JNum == [t |-> "number"]

\* Value::get(key): a member of an object, None for anything else
JGet(v, key) ==
  IF v.t = "object" /\ key \in DOMAIN v.o THEN Some(v.o[key]) ELSE None

\* Value::as_str
JAsStr(v) == IF v.t = "string" THEN Some(v.s) ELSE None

\* the walk over ["metadata", "targetPlatform"]: a missing key breaks the
\* loop and leaves the value reached so far
PlatformValue(ext_dict) ==
  LET m == JGet(ext_dict, "metadata")
  IN  IF ~m.some THEN ext_dict
      ELSE LET p == JGet(m.val, "targetPlatform")
           IN  IF ~p.some THEN m.val ELSE p.val

\* parse_ext_dict -> Option<Extension>
parse_ext_dict(ext_dict) ==
  LET identifier == JGet(ext_dict, "identifier")
      id == IF identifier.some THEN JGet(identifier.val, "id") ELSE None
      ext_name == IF id.some THEN JAsStr(id.val) ELSE None
      ver == JGet(ext_dict, "version")
      version == IF ver.some THEN JAsStr(ver.val) ELSE None
      pv == JAsStr(PlatformValue(ext_dict))
      platform == IF pv.some /\ pv.val \in {<<"u","n","d","e","f","i","n","e","d">>,
                                             <<"n","o","n","e">>}
                  THEN None ELSE pv
      ext == IF ext_name.some THEN parse_ext_line(ext_name.val) ELSE None
  IN  IF ~ext.some THEN None
      ELSE Some(Extension(ext.val.publisher, ext.val.package, version, platform))


(***************************************************************************)
(* list_extensions                                                         *)
(***************************************************************************)
\* the home directory that "~" expands to
Home == <<"h">>

\* shellexpand::full with the fall-back to the token itself; the model's
\* alphabet holds no '$', so only the tilde expands
ShellExpand(extension) ==
  IF extension = <<"~">> \/ StartsWith(extension, <<"~", "/">>)
  THEN Home \o Tail(extension) ELSE extension

\* a file of the file system, as list_extensions reads it
TextFile(text) == [kind |-> "text", text |-> text]
JsonFile(value) == [kind |-> "json", value |-> value]
BadJsonFile == [kind |-> "badjson"]

OptList(o) == IF o.some THEN <<o.val>> ELSE <<>>

RECURSIVE ParseLines(_)
\* the loop over content.split("\n")
ParseLines(lines) ==
  IF lines = <<>> THEN <<>>
  ELSE OptList(parse_ext_line(Head(lines))) \o ParseLines(Tail(lines))

RECURSIVE ParseItems(_)
\* the loop over the items of a JSON array
ParseItems(items) ==
  IF items = <<>> THEN <<>>
  ELSE OptList(parse_ext_dict(Head(items))) \o ParseItems(Tail(items))

\* whether reading one token panics (the two expect() calls)
TokenPanics(extension, fs) ==
  LET ext_path == ShellExpand(extension)
  IN  /\ ext_path \in DOMAIN fs
      /\ \/ fs[ext_path].kind = "badjson"
         \/ /\ fs[ext_path].kind = "text"
            /\ fs[ext_path].text # <<>>
            /\ Head(fs[ext_path].text) \in {"[", "{"}

\* a variant of ParseToken that stops reading a line file at its first
\* malformed line
ParseTokenStopAtBadLine(extension, fs) ==
  LET ext_path == ShellExpand(extension)
      lines == IF ext_path \in DOMAIN fs /\ fs[ext_path].kind = "text"
               THEN SplitLines(fs[ext_path].text) ELSE <<ext_path>>
      bad == {i \in 1..Len(lines) : ~parse_ext_line(lines[i]).some}
  IN  ParseLines(IF bad = {} THEN lines ELSE SubSeq(lines, 1, Min(bad) - 1))

\* the specifiers one token of the input contributes, in order
ParseToken(extension, fs) ==
  LET ext_path == ShellExpand(extension)
  IN  IF ext_path \notin DOMAIN fs THEN OptList(parse_ext_line(ext_path))
      ELSE IF fs[ext_path].kind = "json"
      THEN IF fs[ext_path].value.t = "array"
           THEN ParseItems(fs[ext_path].value.a)
           ELSE IF fs[ext_path].value.t = "object"
           THEN OptList(parse_ext_dict(fs[ext_path].value))
           ELSE <<>>
      ELSE IF fs[ext_path].kind = "text"
      THEN ParseLines(SplitLines(fs[ext_path].text))
      ELSE <<>>

RECURSIVE Gather(_, _)
\* the for loop of list_extensions: result before sorting
Gather(extensions, fs) ==
  IF extensions = <<>> THEN <<>>
  ELSE ParseToken(Head(extensions), fs) \o Gather(Tail(extensions), fs)

RECURSIVE InsertSorted(_, _)
\* insert e after every entry whose name is not greater (a stable sort)
InsertSorted(sorted, e) ==
  IF sorted = <<>> THEN <<e>>
  ELSE IF StrLess(ExtName(e), ExtName(Head(sorted)))
       THEN <<e>> \o sorted
       ELSE <<Head(sorted)>> \o InsertSorted(Tail(sorted), e)

RECURSIVE SortByName(_)
\* result.sort_by(get_extension_name)
SortByName(list) ==
  IF list = <<>> THEN <<>>
  ELSE InsertSorted(SortByName(SubSeq(list, 1, Len(list) - 1)), list[Len(list)])

\* a variant of dedup_by_key that removes nothing
DedupByNameKeepAll(list) == list

RECURSIVE DedupByName(_)
\* result.dedup_by_key(get_extension_name): of a run of equal names the first stays
DedupByName(list) ==
  IF Len(list) < 2 THEN list
  ELSE IF ExtName(list[1]) = ExtName(list[2])
       THEN DedupByName(<<list[1]>> \o SubSeq(list, 3, Len(list)))
       ELSE <<list[1]>> \o DedupByName(Tail(list))

\* list_extensions: [panic, list]
list_extensions(extensions, fs) ==
  IF \E i \in 1..Len(extensions) : TokenPanics(extensions[i], fs)
  THEN [panic |-> TRUE, list |-> <<>>]
  ELSE [panic |-> FALSE, list |-> DedupByName(SortByName(Gather(extensions, fs)))]


(***************************************************************************)
(* Extension::check_platform                                               *)
(***************************************************************************)
valid_platforms ==
  <<<<"w", "i", "n", "3", "2", "-", "x", "6", "4">>,
    <<"w", "i", "n", "3", "2", "-", "i", "a", "3", "2">>,
    <<"w", "i", "n", "3", "2", "-", "a", "r", "m", "6", "4">>,
    <<"l", "i", "n", "u", "x", "-", "x", "6", "4">>,
    <<"l", "i", "n", "u", "x", "-", "a", "r", "m", "6", "4">>,
    <<"l", "i", "n", "u", "x", "-", "a", "r", "m", "h", "f">>,
    <<"d", "a", "r", "w", "i", "n", "-", "x", "6", "4">>,
    <<"d", "a", "r", "w", "i", "n", "-", "a", "r", "m", "6", "4">>,
    <<"a", "l", "p", "i", "n", "e", "-", "x", "6", "4">>,
    <<"w", "e", "b">>,
    <<"a", "l", "p", "i", "n", "e", "-", "a", "r", "m", "6", "4">>>>

\* check_platform: TRUE for Ok(())
check_platform(self) ==
  IF ~self.platform.some THEN TRUE
  ELSE \E i \in 1..Len(valid_platforms) : self.platform.val = valid_platforms[i]

(***************************************************************************)
(* Extension::query_version                                                *)
(* A marketplace answer is [ok, versions]: ok is FALSE when query_extension *)
(* fails (transport error, no extension record); versions is None when the *)
(* record has no "versions" array, else the list of version entries, each  *)
(* [version, targetPlatform] with absent or non-string members None.       *)
(***************************************************************************)
Entry(version, targetPlatform) ==
  [version |-> version, targetPlatform |-> targetPlatform]

\* a variant of EntrySkipped without the (None, Some(_)) => continue arm: an
\* unpinned platform takes an entry whatever its targetPlatform
EntrySkippedAnyPlatform(self, e) ==
  \/ ~e.version.some
  \/ self.version.some /\ self.version.val # e.version.val
  \/ self.platform.some /\ e.targetPlatform.some
       /\ self.platform.val # e.targetPlatform.val

\* a variant of EntrySkipped that also continues on (Some(_), None): a pinned
\* platform passes over an entry without targetPlatform
EntrySkippedNeedsPlatform(self, e) ==
  \/ ~e.version.some
  \/ self.version.some /\ self.version.val # e.version.val
  \/ self.platform.some /\ e.targetPlatform.some
       /\ self.platform.val # e.targetPlatform.val
  \/ ~self.platform.some /\ e.targetPlatform.some
  \/ self.platform.some /\ ~e.targetPlatform.some

\* whether the scan continues past entry e (the three continue statements)
EntrySkipped(self, e) ==
  \/ ~e.version.some
  \/ self.version.some /\ self.version.val # e.version.val
  \/ self.platform.some /\ e.targetPlatform.some
       /\ self.platform.val # e.targetPlatform.val
  \/ ~self.platform.some /\ e.targetPlatform.some

\* the pair returned for the entry the scan stops at
EntryResult(self, e) ==
  IF self.platform.some /\ e.targetPlatform.some
  THEN <<e.version, e.targetPlatform>>
  ELSE <<e.version, None>>

\* the closure over the "versions" array: (version, platform)
ScanVersions(self, x) ==
  LET hits == {i \in 1..Len(x) : ~EntrySkipped(self, x[i])}
  IN  IF hits = {} THEN <<None, None>> ELSE EntryResult(self, x[Min(hits)])

\* query_version: [ok, version, platform]
query_version(self, answer) ==
  IF ~answer.ok THEN [ok |-> FALSE, version |-> None, platform |-> None]
  ELSE LET vp == IF answer.versions.some
                 THEN ScanVersions(self, answer.versions.val)
                 ELSE <<None, None>>
       IN  IF ~vp[1].some
           THEN [ok |-> FALSE, version |-> None, platform |-> None]
           ELSE [ok |-> TRUE, version |-> vp[1], platform |-> vp[2]]


(***************************************************************************)
(* The file system and the transfers                                       *)
(***************************************************************************)
\* the bytes of the artifact the server holds
Data == [i \in 1..BodyLen |-> i]

\* gzip of a byte string, and GzDecoder (ok is FALSE for a stream that is
\* not a complete gzip stream)
Gzip(bytes) == <<31>> \o [i \in 1..Len(bytes) |-> bytes[i] + 100] \o <<0>>
GzDecode(bytes) ==
  IF Len(bytes) >= 2 /\ bytes[1] = 31 /\ bytes[Len(bytes)] = 0
     /\ \A i \in 2..(Len(bytes) - 1) : bytes[i] > 100
  THEN [ok |-> TRUE, bytes |-> [i \in 1..(Len(bytes) - 2) |-> bytes[i + 1] - 100]]
  ELSE [ok |-> FALSE, bytes |-> <<>>]

DataFile(bytes) == [kind |-> "data", bytes |-> bytes]
\* a saved header blob: the value of its content-encoding line ("" when it
\* has none) and the file name of its content-disposition line
HeaderFile(encoding, filename) ==
  [kind |-> "header", encoding |-> encoding, filename |-> filename]
\* a directory and the names extracted into it
DirFile(entries) == [kind |-> "dir", entries |-> entries]

\* whether sub occurs in s (str::contains)
Contains(s, sub) ==
  \E i \in 0..(Len(s) - Len(sub)) : SubSeq(s, i + 1, i + Len(sub)) = sub

\* the file system with path p holding f
FsPut(f_s, p, f) == [q \in DOMAIN f_s \cup {p} |-> IF q = p THEN f ELSE f_s[q]]
\* the file system without path p
FsDel(f_s, p) == [q \in DOMAIN f_s \ {p} |-> f_s[q]]

\* what the transfer sends as the body: the artifact under the server's
\* content encoding
WireBody(enc) == IF Contains(enc, <<"g", "z", "i", "p">>) THEN Gzip(Data) ELSE Data

\* the body file once curl has received k bytes of the wire body in all:
\* with -C - an existing body file is continued from its length, without it
\* the file is written from the start
CurlBody(f_s, body_file, resume, enc, k) ==
  IF resume /\ body_file \in DOMAIN f_s
  THEN IF k <= Len(f_s[body_file].bytes) THEN f_s[body_file].bytes
       ELSE f_s[body_file].bytes
              \o SubSeq(WireBody(enc), Len(f_s[body_file].bytes) + 1, k)
  ELSE SubSeq(WireBody(enc), 1, k)

download_dir == <<"d">>
MAIN_SEPARATOR == <<"/">>

\* the three paths of one extension download
OutputFile(ext_name) == download_dir \o MAIN_SEPARATOR \o ext_name \o Vsix
HeadFile(output_file) == output_file \o <<".", "h", "e", "a", "d", "e", "r">>
BodyFile(output_file) == output_file \o <<".", "d", "o", "w", "n", "l", "o", "a", "d", "i", "n", "g">>


(***************************************************************************)
(* State                                                                   *)
(***************************************************************************)
VARIABLES
  cmd,         \* the subcommand: "extension" or "server"
  argv,        \* ExtensionArgs.extensions: the raw tokens
  cached,      \* ExtensionArgs.cached: Option<bool>
  market,      \* what the marketplace answers to an extension query
  enc,         \* the content-encoding value the download server answers with
  fs,          \* the file system: path -> file
  pc,          \* the statement the program is at
  extensions,  \* the list list_extensions returned
  idx,         \* position of the for loop of download_extensions
  loc,         \* locals of the running download: version, platform, encoding, data
  result,      \* the Result of the call that returned last
  failed,      \* download_extensions' failed list
  report,      \* the final log line of download_extensions
  netcalls,    \* history: network calls made by the running call
  deleted,     \* history: temporary files the running call removed or renamed
  fsAtCall,    \* history: the file system when the running call started
  outcomes,    \* history: what each attempted specifier's download did
  failStep,    \* history: the statement the running call failed at
  sargs,       \* ServerArgs: commit, platform, arch and the host's identifiers
  feed,        \* what the latest-commit feed answers
  dispo,       \* the file name of the release's content-disposition header
  srv,         \* locals of download_server: platform, arch, commit, prefix, archive_file
  calls        \* history: the stages download_server called, with their arguments

vars ==
  <<cmd, argv, cached, market, enc, fs, pc, extensions, idx, loc, result, failed,
    report, netcalls, deleted, fsAtCall, outcomes, failStep, sargs, feed, dispo,
    srv, calls>>

extVars == <<argv, cached, market, enc, extensions, idx, loc, failed, report, outcomes>>
srvVars == <<sargs, feed, dispo, srv, calls>>

Ok(v) == [ok |-> TRUE, val |-> v]
Err == [ok |-> FALSE, val |-> FALSE]

\* a variant of CachedVal whose default is false
CachedValDefaultFalse == IF cached.some THEN cached.val ELSE FALSE

\* cached.unwrap_or(true), lines 78-81
CachedVal == IF cached.some THEN cached.val ELSE TRUE

self == extensions[idx]
ext_name == ExtName(self)
output_file == OutputFile(ext_name)
head_file == HeadFile(output_file)
body_file == BodyFile(output_file)

LocInit == [version |-> <<>>, platform |-> None, encoding |-> <<>>, data |-> <<>>]
SrvInit ==
  [platform |-> <<>>, arch |-> <<>>, commit |-> <<>>, prefix |-> <<>>,
   archive_file |-> <<>>]
NoServerArgs == [commit |-> None, platform |-> None, arch |-> None,
                 os |-> <<>>, hostarch |-> <<>>]

(***************************************************************************)
(* download_extensions and Extension::download                             *)
(***************************************************************************)
\* let extensions = extension::list_extensions(&args.extensions)
ListExtensions ==
  /\ cmd = "extension" /\ pc = "start"
  /\ LET r == list_extensions(argv, fs)
     IN  /\ extensions' = r.list
         /\ pc' = IF r.panic THEN "panicked" ELSE "loop"
  /\ idx' = 1
  /\ UNCHANGED <<cmd, argv, cached, market, enc, fs, loc, result, failed, report,
                 netcalls, deleted, fsAtCall, outcomes, failStep>>
  /\ UNCHANGED srvVars

\* for extension in &extensions: the call of extension.download, or the end
\* of the loop
LoopNext ==
  /\ pc = "loop"
  /\ IF idx <= Len(extensions)
     THEN /\ pc' = "check_platform"
          /\ netcalls' = <<>>
          /\ deleted' = {}
          /\ fsAtCall' = fs
          /\ failStep' = "none"
          /\ loc' = LocInit
     ELSE /\ pc' = "report"
          /\ UNCHANGED <<netcalls, deleted, fsAtCall, failStep, loc>>
  /\ UNCHANGED <<cmd, argv, cached, market, enc, fs, extensions, idx, result,
                 failed, report, outcomes>>
  /\ UNCHANGED srvVars

\* self.check_platform()? and the match on self.version
CheckPlatform ==
  /\ pc = "check_platform"
  /\ IF ~check_platform(self)
     THEN /\ result' = Err
          /\ failStep' = "check_platform"
          /\ pc' = "returned"
          /\ loc' = loc
     ELSE /\ UNCHANGED <<result, failStep>>
          /\ IF self.version.some
             THEN /\ loc' = [loc EXCEPT !.version = self.version.val,
                                        !.platform = self.platform]
                  /\ pc' = "cache_check"
             ELSE /\ loc' = loc
                  /\ pc' = "query"
  /\ UNCHANGED <<cmd, argv, cached, market, enc, fs, extensions, idx, failed,
                 report, netcalls, deleted, fsAtCall, outcomes>>
  /\ UNCHANGED srvVars

\* let (v, p) = self.query_version()?
QueryVersion ==
  /\ pc = "query"
  /\ netcalls' = Append(netcalls, "query")
  /\ LET r == query_version(self, market)
     IN  IF r.ok
         THEN /\ loc' = [loc EXCEPT !.version = r.version.val,
                                    !.platform = r.platform]
              /\ result' = Ok(<<r.version, r.platform>>)
              /\ pc' = "cache_check"
              /\ UNCHANGED failStep
         ELSE /\ result' = Err
              /\ failStep' = "query"
              /\ pc' = "returned"
              /\ loc' = loc
  /\ UNCHANGED <<cmd, argv, cached, market, enc, fs, extensions, idx, failed,
                 report, deleted, fsAtCall, outcomes>>
  /\ UNCHANGED srvVars

\* if cached && Path::new(&output_file).exists() { return Ok(false) }
CacheCheck ==
  /\ pc = "cache_check"
  /\ IF CachedVal /\ output_file \in DOMAIN fs
     THEN /\ result' = Ok(FALSE)
          /\ pc' = "returned"
     ELSE /\ pc' = "mkdir"
          /\ UNCHANGED result
  /\ UNCHANGED <<cmd, argv, cached, market, enc, fs, extensions, idx, loc, failed,
                 report, netcalls, deleted, fsAtCall, outcomes, failStep>>
  /\ UNCHANGED srvVars

\* fs::create_dir_all(download_dir)?
CreateDownloadDir ==
  /\ pc = "mkdir"
  /\ fs' = IF download_dir \in DOMAIN fs THEN fs
           ELSE FsPut(fs, download_dir, DirFile({}))
  /\ pc' = "curl"
  /\ UNCHANGED <<cmd, argv, cached, market, enc, extensions, idx, loc, result,
                 failed, report, netcalls, deleted, fsAtCall, outcomes, failStep>>
  /\ UNCHANGED srvVars

\* the curl subprocess of download_extension: k bytes of the wire body are
\* in the body file when it exits; it succeeds only with all of them
Curl ==
  /\ pc = "curl"
  /\ netcalls' = Append(netcalls, "transfer")
  /\ \E k \in 0..Len(WireBody(enc)), success \in BOOLEAN :
       /\ success => k = Len(WireBody(enc))
       /\ fs' = IF k = 0 THEN fs
                ELSE FsPut(FsPut(fs, body_file,
                                 DataFile(CurlBody(fs, body_file, CachedVal, enc, k))),
                           head_file, HeaderFile(enc, None))
       /\ IF success
          THEN /\ pc' = "read_head"
               /\ UNCHANGED <<result, failStep>>
          ELSE /\ result' = Err
               /\ failStep' = "curl"
               /\ pc' = "returned"
  /\ UNCHANGED <<cmd, argv, cached, market, enc, extensions, idx, loc, failed,
                 report, deleted, fsAtCall, outcomes>>
  /\ UNCHANGED srvVars

\* the loop over read_to_string(&head_file)?.lines()
ReadHeader ==
  /\ pc = "read_head"
  /\ head_file \in DOMAIN fs
  /\ loc' = [loc EXCEPT !.encoding = fs[head_file].encoding]
  /\ pc' = "read_body"
  /\ UNCHANGED <<cmd, argv, cached, market, enc, fs, extensions, idx, result,
                 failed, report, netcalls, deleted, fsAtCall, outcomes, failStep>>
  /\ UNCHANGED srvVars

\* File::open(&body_file)?, read_to_end and the gzip branch
ReadBody ==
  /\ pc = "read_body"
  /\ body_file \in DOMAIN fs
  /\ LET raw == fs[body_file].bytes
         dec == GzDecode(raw)
     IN  IF Contains(loc.encoding, <<"g", "z", "i", "p">>)
         THEN IF dec.ok
              THEN /\ loc' = [loc EXCEPT !.data = dec.bytes]
                   /\ pc' = "create"
                   /\ UNCHANGED <<result, failStep>>
              ELSE /\ result' = Err
                   /\ failStep' = "gunzip"
                   /\ pc' = "returned"
                   /\ loc' = loc
         ELSE /\ loc' = [loc EXCEPT !.data = raw]
              /\ pc' = "create"
              /\ UNCHANGED <<result, failStep>>
  /\ UNCHANGED <<cmd, argv, cached, market, enc, fs, extensions, idx, failed,
                 report, netcalls, deleted, fsAtCall, outcomes>>
  /\ UNCHANGED srvVars

\* let mut f_o = File::create(&output_file)?: the file exists and is empty
FileCreate ==
  /\ pc = "create"
  /\ fs' = FsPut(fs, output_file, DataFile(<<>>))
  /\ pc' = "write"
  /\ UNCHANGED <<cmd, argv, cached, market, enc, extensions, idx, loc, result,
                 failed, report, netcalls, deleted, fsAtCall, outcomes, failStep>>
  /\ UNCHANGED srvVars

\* f_o.write_all(&data)?: one write call, which takes n more bytes
WriteAll ==
  /\ pc = "write"
  /\ output_file \in DOMAIN fs
  /\ LET done == Len(fs[output_file].bytes)
     IN  \E n \in 1..(Len(loc.data) - done) :
           /\ fs' = FsPut(fs, output_file,
                          DataFile(SubSeq(loc.data, 1, done + n)))
           /\ pc' = IF done + n = Len(loc.data) THEN "rm_body" ELSE "write"
  /\ UNCHANGED <<cmd, argv, cached, market, enc, extensions, idx, loc, result,
                 failed, report, netcalls, deleted, fsAtCall, outcomes, failStep>>
  /\ UNCHANGED srvVars

\* fs::remove_file(body_file)?
RemoveBody ==
  /\ pc = "rm_body"
  /\ body_file \in DOMAIN fs
  /\ fs' = FsDel(fs, body_file)
  /\ deleted' = deleted \cup {body_file}
  /\ pc' = "rm_head"
  /\ UNCHANGED <<cmd, argv, cached, market, enc, extensions, idx, loc, result,
                 failed, report, netcalls, fsAtCall, outcomes, failStep>>
  /\ UNCHANGED srvVars

\* a variant of RemoveHead that returns Ok(()) without removing the header file
RemoveHeadForgotten ==
  /\ pc = "rm_head"
  /\ head_file \in DOMAIN fs
  /\ result' = Ok(TRUE)
  /\ pc' = "returned"
  /\ UNCHANGED <<cmd, argv, cached, market, enc, fs, extensions, idx, loc, failed,
                 report, netcalls, deleted, fsAtCall, outcomes, failStep>>
  /\ UNCHANGED srvVars

\* fs::remove_file(head_file)?; Ok(()), which download turns into Ok(true)
RemoveHead ==
  /\ pc = "rm_head"
  /\ head_file \in DOMAIN fs
  /\ fs' = FsDel(fs, head_file)
  /\ deleted' = deleted \cup {head_file}
  /\ result' = Ok(TRUE)
  /\ pc' = "returned"
  /\ UNCHANGED <<cmd, argv, cached, market, enc, extensions, idx, loc, failed,
                 report, netcalls, fsAtCall, outcomes, failStep>>
  /\ UNCHANGED srvVars

\* the statements of download and download_extension that end in `?` on a
\* file-system call
ExtFsSteps ==
  {"mkdir", "read_head", "read_body", "create", "write", "rm_body", "rm_head"}

\* a file-system call of the running download returns an error, which `?`
\* returns to the loop
ExtFsError ==
  /\ pc \in ExtFsSteps
  /\ result' = Err
  /\ failStep' = pc
  /\ pc' = "returned"
  /\ UNCHANGED <<cmd, argv, cached, market, enc, fs, extensions, idx, loc, failed,
                 report, netcalls, deleted, fsAtCall, outcomes>>
  /\ UNCHANGED srvVars

\* what the call that just returned did, for the history
Outcome ==
  IF ~result.ok THEN "failed" ELSE IF result.val THEN "downloaded" ELSE "skipped"

\* a variant of FailedAfter that forgets the earlier failures
FailedAfterOnlyLast(list, success, name) ==
  IF success THEN list ELSE <<name>>

\* the failed list after one iteration: lines 38-49 of main.rs
FailedAfter(list, success, name) ==
  IF success THEN list ELSE Append(list, name)

\* the body of the for loop after the call: match result, push the name
LoopRecord ==
  /\ pc = "returned"
  /\ cmd = "extension"
  /\ failed' = FailedAfter(failed, result.ok, ext_name)
  /\ outcomes' = Append(outcomes, [idx |-> idx, what |-> Outcome])
  /\ idx' = idx + 1
  /\ pc' = "loop"
  /\ UNCHANGED <<cmd, argv, cached, market, enc, fs, extensions, loc, result,
                 report, netcalls, deleted, fsAtCall, failStep>>
  /\ UNCHANGED srvVars

\* the text failed.join(" ") puts in the report
RECURSIVE JoinNames(_)
JoinNames(list) ==
  IF list = <<>> THEN <<>>
  ELSE IF Len(list) = 1 THEN list[1]
  ELSE list[1] \o <<" ">> \o JoinNames(Tail(list))

\* the final log line: lines 51-55 of main.rs
ReportOf(list) ==
  IF Len(list) > 0
  THEN [level |-> "error", text |-> <<"d", "o", "w", "n", "l", "o", "a", "d", " ", "s", "o", "m", "e", " ", "f", "a", "i", "l", "e", "d", ":">> \o <<"\n">> \o JoinNames(list)]
  ELSE [level |-> "info", text |-> <<"d", "o", "w", "n", "l", "o", "a", "d", " ", "a", "l", "l", " ", "s", "u", "c", "c", "e", "e", "d">>]

\* if failed.len() > 0 { error!(..) } else { info!(..) }
Report ==
  /\ pc = "report"
  /\ report' = ReportOf(failed)
  /\ pc' = "done"
  /\ UNCHANGED <<cmd, argv, cached, market, enc, fs, extensions, idx, loc, result,
                 failed, netcalls, deleted, fsAtCall, outcomes, failStep>>
  /\ UNCHANGED srvVars


(***************************************************************************)
(* server.rs                                                               *)
(***************************************************************************)
valid_map_p ==
  <<<<<<"l", "i", "n", "u", "x">>, <<"l", "i", "n", "u", "x">>>>, <<<<"w", "i", "n", "d", "o", "w", "s">>, <<"w", "i", "n", "3", "2">>>>, <<<<"m", "a", "c", "o", "s">>, <<"d", "a", "r", "w", "i", "n">>>>,
    <<<<"a", "l", "p", "i", "n", "e">>, <<"a", "l", "p", "i", "n", "e">>>>>>
valid_map_a ==
  <<<<<<"x", "8", "6", "_", "6", "4">>, <<"x", "6", "4">>>>, <<<<"a", "a", "r", "c", "h", "6", "4">>, <<"a", "r", "m", "6", "4">>>>, <<<<"a", "r", "m">>, <<"a", "r", "m", "h", "f">>>>>>

\* the first value whose key is id in the table, id itself when there is none
MapThrough(table, id) ==
  LET hits == {i \in 1..Len(table) : table[i][1] = id}
  IN  IF hits = {} THEN id ELSE table[Min(hits)][2]

\* get_platform_info(platform, arch) on a host reporting (os, hostarch)
get_platform_info(platform, arch, os, hostarch) ==
  <<IF platform.some THEN platform.val ELSE MapThrough(valid_map_p, os),
    IF arch.some THEN arch.val ELSE MapThrough(valid_map_a, hostarch)>>

\* str::rfind of a one-character mark
RFind(line, mark) ==
  IF Positions(line, mark) = {} THEN 0 ELSE Max(Positions(line, mark))

\* the archive extension download_release_file derives from the file name of
\* the content-disposition header, ".tar.gz" when there is none
archive_ext(filename) ==
  IF ~filename.some \/ RFind(filename.val, ".") = 0 THEN <<".", "t", "a", "r", ".", "g", "z">>
  ELSE LET pos == RFind(filename.val, ".")
           ext == SubSeq(filename.val, pos, Len(filename.val))
       IN  IF EndsWith(SubSeq(filename.val, 1, pos - 1), <<".", "t", "a", "r">>)
           THEN <<".", "t", "a", "r">> \o ext ELSE ext

output_dir == <<"o">>

\* PathBuf::from(output_dir).join("vscode-{prefix}-{arch}-{commit}")
archive_path(prefix, arch, commit) ==
  output_dir \o <<"/">> \o <<"v", "s", "c", "o", "d", "e", "-">> \o prefix \o <<"-">> \o arch \o <<"-">> \o commit

\* output_dir.join("bin").join(commit)
commit_dir(commit) == output_dir \o <<"/", "b", "i", "n", "/">> \o commit

\* the prefix download_server derives from the platform
prefix_of(platform) ==
  IF platform = <<"a", "l", "p", "i", "n", "e">> THEN <<"c", "l", "i", "-">> \o platform ELSE <<"s", "e", "r", "v", "e", "r", "-">> \o platform

rel_path == archive_path(srv.prefix, srv.arch, srv.commit)
rel_body == rel_path \o <<".", "d", "o", "w", "n", "l", "o", "a", "d", "i", "n", "g">>
rel_head == rel_path \o <<".", "h", "e", "a", "d", "e", "r">>

\* a variant of ServerStart that asks the feed even when a commit is supplied
ServerStartAlwaysQueries ==
  /\ cmd = "server" /\ pc = "start"
  /\ LET pa == get_platform_info(sargs.platform, sargs.arch, sargs.os, sargs.hostarch)
     IN  srv' = [srv EXCEPT !.platform = pa[1], !.arch = pa[2]]
  /\ pc' = "latest"
  /\ UNCHANGED <<cmd, fs, result, netcalls, deleted, fsAtCall, failStep, sargs, feed,
                 dispo, calls>>
  /\ UNCHANGED extVars

\* get_platform_info and the choice between the user's commit and the feed
ServerStart ==
  /\ cmd = "server" /\ pc = "start"
  /\ LET pa == get_platform_info(sargs.platform, sargs.arch, sargs.os, sargs.hostarch)
     IN  srv' = [srv EXCEPT !.platform = pa[1], !.arch = pa[2]]
  /\ IF sargs.commit.some
     THEN /\ result' = Ok(sargs.commit.val)
          /\ pc' = "set_commit"
     ELSE /\ pc' = "latest"
          /\ UNCHANGED result
  /\ UNCHANGED <<cmd, fs, netcalls, deleted, fsAtCall, failStep, sargs, feed,
                 dispo, calls>>
  /\ UNCHANGED extVars

\* server::get_latest_release(&platform, &arch)
GetLatestRelease ==
  /\ pc = "latest"
  /\ calls' = Append(calls, [stage |-> "get_latest_release",
                             arg |-> <<srv.platform, srv.arch>>])
  /\ netcalls' = Append(netcalls, "latest")
  /\ IF feed.ok /\ feed.commits # <<>>
     THEN /\ result' = Ok(Head(feed.commits))
          /\ pc' = "set_commit"
          /\ UNCHANGED failStep
     ELSE /\ result' = Err
          /\ failStep' = "latest"
          /\ pc' = "server_end"
  /\ UNCHANGED <<cmd, fs, deleted, fsAtCall, sargs, feed, dispo, srv>>
  /\ UNCHANGED extVars

\* the first and_then closure, and the call of download_release_file
SetCommit ==
  /\ pc = "set_commit"
  /\ srv' = [srv EXCEPT !.prefix = prefix_of(srv.platform), !.commit = result.val]
  /\ calls' = Append(calls, [stage |-> "download_release_file",
                             arg |-> <<result.val, prefix_of(srv.platform), srv.arch>>])
  /\ fsAtCall' = fs
  /\ deleted' = {}
  /\ pc' = "release_mkdir"
  /\ UNCHANGED <<cmd, fs, result, netcalls, failStep, sargs, feed, dispo>>
  /\ UNCHANGED extVars

\* fs::create_dir_all(output_dir)?
ReleaseCreateDir ==
  /\ pc = "release_mkdir"
  /\ fs' = IF output_dir \in DOMAIN fs THEN fs ELSE FsPut(fs, output_dir, DirFile({}))
  /\ pc' = "release_curl"
  /\ UNCHANGED <<cmd, result, netcalls, deleted, fsAtCall, failStep>>
  /\ UNCHANGED srvVars
  /\ UNCHANGED extVars

\* the curl subprocess of download_release_file, always with -C -
ReleaseCurl ==
  /\ pc = "release_curl"
  /\ netcalls' = Append(netcalls, "transfer")
  /\ \E k \in 0..Len(WireBody(enc)), success \in BOOLEAN :
       /\ success => k = Len(WireBody(enc))
       /\ fs' = IF k = 0 THEN fs
                ELSE FsPut(FsPut(fs, rel_body,
                                 DataFile(CurlBody(fs, rel_body, TRUE, enc, k))),
                           rel_head, HeaderFile(enc, dispo))
       /\ IF success
          THEN /\ pc' = "release_rename"
               /\ UNCHANGED <<result, failStep>>
          ELSE /\ result' = Err
               /\ failStep' = "curl"
               /\ pc' = "release_returned"
  /\ UNCHANGED <<cmd, deleted, fsAtCall>>
  /\ UNCHANGED srvVars
  /\ UNCHANGED extVars

\* the archive name from the saved header, and fs::rename(body_file, &archive_file)?
ReleaseRename ==
  /\ pc = "release_rename"
  /\ rel_body \in DOMAIN fs
  /\ LET name == IF rel_head \in DOMAIN fs THEN fs[rel_head].filename ELSE None
         file == rel_path \o archive_ext(name)
     IN  /\ fs' = FsDel(FsPut(fs, file, fs[rel_body]), rel_body)
         /\ loc' = [loc EXCEPT !.data = file]
  /\ deleted' = deleted \cup {rel_body}
  /\ pc' = "release_rm_head"
  /\ UNCHANGED <<cmd, argv, cached, market, enc, extensions, idx, failed, report,
                 outcomes, result, netcalls, fsAtCall, failStep>>
  /\ UNCHANGED srvVars

\* fs::remove_file(head_file)?; Ok(archive_file)
ReleaseRemoveHead ==
  /\ pc = "release_rm_head"
  /\ rel_head \in DOMAIN fs
  /\ fs' = FsDel(fs, rel_head)
  /\ deleted' = deleted \cup {rel_head}
  /\ result' = Ok(loc.data)
  /\ pc' = "release_returned"
  /\ UNCHANGED <<cmd, netcalls, fsAtCall, failStep>>
  /\ UNCHANGED srvVars
  /\ UNCHANGED extVars

\* the second and_then closure: the match on download_release_file's result,
\* and the call of prepare_release_dir through the third
ReleaseReturned ==
  /\ pc = "release_returned"
  /\ IF result.ok
     THEN /\ srv' = [srv EXCEPT !.archive_file = result.val]
          /\ calls' = Append(calls, [stage |-> "prepare_release_dir",
                                     arg |-> <<srv.commit, result.val, output_dir>>])
          /\ pc' = "prep_rmdir"
     ELSE /\ pc' = "server_end"
          /\ UNCHANGED <<srv, calls>>
  /\ UNCHANGED <<cmd, fs, result, netcalls, deleted, fsAtCall, failStep, sargs,
                 feed, dispo>>
  /\ UNCHANGED extVars

\* if commit_dir.exists() { fs::remove_dir_all(&commit_dir)? }
PrepRemoveDir ==
  /\ pc = "prep_rmdir"
  /\ fs' = IF commit_dir(srv.commit) \in DOMAIN fs
           THEN FsDel(fs, commit_dir(srv.commit)) ELSE fs
  /\ pc' = "prep_mkdir"
  /\ UNCHANGED <<cmd, result, netcalls, deleted, fsAtCall, failStep>>
  /\ UNCHANGED srvVars
  /\ UNCHANGED extVars

\* if !commit_dir.exists() { fs::create_dir_all(&commit_dir)? }
PrepCreateDir ==
  /\ pc = "prep_mkdir"
  /\ fs' = IF commit_dir(srv.commit) \notin DOMAIN fs
           THEN FsPut(fs, commit_dir(srv.commit), DirFile({})) ELSE fs
  /\ pc' = "prep_extract"
  /\ UNCHANGED <<cmd, result, netcalls, deleted, fsAtCall, failStep>>
  /\ UNCHANGED srvVars
  /\ UNCHANGED extVars

\* the dispatch on the archive's extension; the extractor itself may fail
PrepExtract ==
  /\ pc = "prep_extract"
  /\ LET kind == IF EndsWith(srv.archive_file, <<".", "t", "a", "r", ".", "g", "z">>) THEN "tgz"
                 ELSE IF EndsWith(srv.archive_file, <<".", "z", "i", "p">>) THEN "zip"
                 ELSE "none"
     IN  IF kind = "none"
         THEN /\ result' = Err
              /\ failStep' = "unknown_archive"
              /\ UNCHANGED <<fs, calls>>
         ELSE /\ calls' = Append(calls,
                    [stage |-> IF kind = "tgz" THEN "extract_tgz" ELSE "extract_zip",
                     arg |-> <<srv.archive_file>>])
              /\ \E success \in BOOLEAN :
                   IF success
                   THEN /\ fs' = FsPut(fs, commit_dir(srv.commit), DirFile({kind}))
                        /\ result' = Ok(TRUE)
                        /\ UNCHANGED failStep
                   ELSE /\ result' = Err
                        /\ failStep' = "extract"
                        /\ UNCHANGED fs
  /\ pc' = "server_end"
  /\ UNCHANGED <<cmd, netcalls, deleted, fsAtCall, sargs, feed, dispo, srv>>
  /\ UNCHANGED extVars

\* the statements of the server path that end in `?` on a file-system call
SrvFsSteps == {"release_mkdir", "release_rename", "release_rm_head"}
PrepFsSteps == {"prep_rmdir", "prep_mkdir"}

\* a file-system call of download_release_file returns an error
ReleaseFsError ==
  /\ pc \in SrvFsSteps
  /\ result' = Err
  /\ failStep' = pc
  /\ pc' = "release_returned"
  /\ UNCHANGED <<cmd, fs, netcalls, deleted, fsAtCall>>
  /\ UNCHANGED srvVars
  /\ UNCHANGED extVars

\* a file-system call of prepare_release_dir returns an error
PrepFsError ==
  /\ pc \in PrepFsSteps
  /\ result' = Err
  /\ failStep' = pc
  /\ pc' = "server_end"
  /\ UNCHANGED <<cmd, fs, netcalls, deleted, fsAtCall>>
  /\ UNCHANGED srvVars
  /\ UNCHANGED extVars

\* match res { Ok(_) => (), Err(e) => error!(..) }
ServerEnd ==
  /\ pc = "server_end"
  /\ report' = IF result.ok THEN [level |-> "none", text |-> <<>>]
               ELSE [level |-> "error", text |-> <<"c", "a", "u", "g", "h", "t", " ", "e", "r", "r", "o", "r">>]
  /\ pc' = "done"
  /\ UNCHANGED <<cmd, argv, cached, market, enc, fs, extensions, idx, loc, result,
                 failed, netcalls, deleted, fsAtCall, outcomes, failStep>>
  /\ UNCHANGED srvVars


(***************************************************************************)
(* Initial states                                                          *)
(***************************************************************************)
NoReport == [level |-> "unset", text |-> <<>>]
NoFeed == [ok |-> FALSE, commits |-> <<>>]
NoAnswer == [ok |-> FALSE, versions |-> None]
EmptyFs == <<>>

\* the inline tokens of the runs of the extension subcommand
MainArgv ==
  {<<<<"a", ".", "b">>>>,
   <<<<"a", ".", "b", "@", "1">>>>,
   <<<<"a", ".", "b", "=", "w", "e", "b">>>>,
   <<<<"a", ".", "b", "@", "1", "=", "x">>>>,
   <<<<"c", ".", "e">>, <<"a", ".", "b", "@", "1">>>>,
   <<<<"n", "o", "d", "o", "t">>, <<"a", ".", "b", "=", "x">>, <<"c", ".", "e", "@", "2">>>>}

\* the marketplace answers of the runs of the extension subcommand
MainMarket ==
  {NoAnswer,
   [ok |-> TRUE, versions |-> None],
   [ok |-> TRUE, versions |-> Some(<<Entry(Some(<<"1">>), None)>>)],
   [ok |-> TRUE, versions |-> Some(<<Entry(Some(<<"2">>), Some(<<"w", "e", "b">>))>>)],
   [ok |-> TRUE, versions |-> Some(<<Entry(Some(<<"2">>), Some(<<"w", "e", "b">>)),
                                      Entry(Some(<<"1">>), None)>>)]}

Encodings == {<<>>, <<" ", "g", "z", "i", "p">>}

\* what earlier runs may have left for the specifier named n: a finished
\* file of an older release, or the two temporary files of a broken transfer
LeftOvers(n, e) ==
  {[path |-> OutputFile(n), file |-> DataFile(<<9>>)],
   [path |-> BodyFile(OutputFile(n)), file |-> DataFile(SubSeq(WireBody(e), 1, 1))],
   [path |-> HeadFile(OutputFile(n)), file |-> HeaderFile(e, None)]}

\* a set of left-over files as a file system
AsFs(S) ==
  [q \in {x.path : x \in S} |-> (CHOOSE x \in S : x.path = q).file]

\* the file systems the extension subcommand may start in: of each specifier
\* the finished file, the temporary files, both or none
ExtInitFs(tokens, e) ==
  LET list == list_extensions(tokens, EmptyFs).list
      all == UNION {LeftOvers(ExtName(list[i]), e) : i \in 1..Len(list)}
      dests == {x \in all : x.file.kind = "data" /\ x.file.bytes = <<9>>}
  IN  {AsFs(D \cup T) :
         D \in SUBSET dests,
         T \in {UNION {LeftOvers(ExtName(list[i]), e) \ dests : i \in I} :
                  I \in SUBSET (1..Len(list))}}

InitCommon ==
  /\ pc = "start"
  /\ extensions = <<>>
  /\ idx = 1
  /\ loc = LocInit
  /\ result = Err
  /\ failed = <<>>
  /\ report = NoReport
  /\ netcalls = <<>>
  /\ deleted = {}
  /\ fsAtCall = fs
  /\ outcomes = <<>>
  /\ failStep = "none"
  /\ srv = SrvInit
  /\ calls = <<>>

InitExtension ==
  /\ cmd = "extension"
  /\ argv \in MainArgv
  /\ cached \in {None, Some(TRUE), Some(FALSE)}
  /\ market \in MainMarket
  /\ enc \in Encodings
  /\ fs \in ExtInitFs(argv, enc)
  /\ sargs = NoServerArgs
  /\ feed = NoFeed
  /\ dispo = None
  /\ InitCommon

\* the arguments of the runs of the server subcommand, with the host's
\* env::consts::OS and env::consts::ARCH
ServerArgsPool ==
  {[commit |-> c, platform |-> h[1], arch |-> h[2], os |-> h[3], hostarch |-> h[4]] :
     c \in {None, Some(<<"c", "1">>)},
     h \in {<<None, None, <<"m", "a", "c", "o", "s">>, <<"a", "a", "r", "c", "h", "6", "4">>>>,
            <<Some(<<"a", "l", "p", "i", "n", "e">>), Some(<<"x", "6", "4">>), <<"l", "i", "n", "u", "x">>, <<"x", "8", "6", "_", "6", "4">>>>,
            <<None, Some(<<"a", "r", "m", "6", "4">>), <<"f", "r", "e", "e", "b", "s", "d">>, <<"x", "8", "6", "_", "6", "4">>>>}}

Feeds == {NoFeed, [ok |-> TRUE, commits |-> <<>>], [ok |-> TRUE, commits |-> <<<<"c", "2">>, <<"c", "1">>>>]}

Dispositions == {None, Some(<<"s", ".", "z", "i", "p">>), Some(<<"s", ".", "t", "a", "r", ".", "g", "z">>), Some(<<"s", ".", "b", "i", "n">>), Some(<<"s">>)}

\* the file systems the server subcommand may start in: an extracted
\* directory of an earlier run for either commit, and the temporary files of
\* a broken transfer
ServerInitFs(a) ==
  LET pa == get_platform_info(a.platform, a.arch, a.os, a.hostarch)
      base(c) == archive_path(prefix_of(pa[1]), pa[2], c)
      dirs == {[path |-> commit_dir(c), file |-> DirFile({"old"})] : c \in {<<"c", "1">>, <<"c", "2">>}}
      temps(c) == {[path |-> base(c) \o <<".", "d", "o", "w", "n", "l", "o", "a", "d", "i", "n", "g">>,
                    file |-> DataFile(SubSeq(WireBody(<<>>), 1, 1))],
                   [path |-> base(c) \o <<".", "h", "e", "a", "d", "e", "r">>, file |-> HeaderFile(<<>>, None)]}
  IN  {AsFs(D \cup T) : D \in SUBSET dirs, T \in {{}, temps(<<"c", "1">>), temps(<<"c", "2">>)}}

InitServer ==
  /\ cmd = "server"
  /\ sargs \in ServerArgsPool
  /\ feed \in Feeds
  /\ dispo \in Dispositions
  /\ enc = <<>>
  /\ fs \in ServerInitFs(sargs)
  /\ argv = <<>>
  /\ cached = None
  /\ market = NoAnswer
  /\ InitCommon

Init == InitExtension \/ InitServer

Next ==
  \/ ListExtensions
  \/ LoopNext
  \/ CheckPlatform
  \/ QueryVersion
  \/ CacheCheck
  \/ CreateDownloadDir
  \/ Curl
  \/ ReadHeader
  \/ ReadBody
  \/ FileCreate
  \/ WriteAll
  \/ RemoveBody
  \/ RemoveHead
  \/ ExtFsError
  \/ LoopRecord
  \/ Report
  \/ ServerStart
  \/ GetLatestRelease
  \/ SetCommit
  \/ ReleaseCreateDir
  \/ ReleaseCurl
  \/ ReleaseRename
  \/ ReleaseRemoveHead
  \/ ReleaseReturned
  \/ PrepRemoveDir
  \/ PrepCreateDir
  \/ PrepExtract
  \/ ReleaseFsError
  \/ PrepFsError
  \/ ServerEnd

\* one run of either subcommand
Spec == Init /\ [][Next]_vars


(***************************************************************************)
(* list_extensions on its own, over a wide set of inputs                   *)
(***************************************************************************)
\* the characters of the generated inline tokens
TokenChars == {"a", ".", "@", "="}

\* tokens chosen for what the generated ones do not reach: a file path, a
\* tilde path, blanks, the .vsix suffix, the empty token
CraftedTokens ==
  {<<"f">>, <<"~", "/", "f">>, <<"n", "o", "d", "o", "t">>, <<"a", ".", "b">>, <<"a", ".", "b", "@", "1">>, <<" ", "a", ".", "b", "@", "1", "=", "w", "e", "b", ".", "v", "s", "i", "x", " ">>, <<"c", ".", "e", "=", "w", "e", "b">>,
   <<"a", "@", "1", ".", "2">>, <<"a", ".", "b", ".", "v", "s", "i", "x">>, <<>>,
   <<"c", ".", "e">>, <<"a", ".", "b", "@", "1", "@", "2", "=", "x", "=", "y">>}

\* a descriptor object of extensions.json
Descriptor(id, version, metadata) ==
  JObj([k \in {"identifier"} \cup (IF version.some THEN {"version"} ELSE {})
                \cup (IF metadata.some THEN {"metadata"} ELSE {}) |->
          IF k = "identifier" THEN JObj([j \in {"id"} |-> id])
          ELSE IF k = "version" THEN version.val
          ELSE metadata.val])

Meta(targetPlatform) == JObj([k \in {"targetPlatform"} |-> targetPlatform])

\* the files a token may name
CraftedFiles ==
  {TextFile(<<"a", ".", "b", "\n", "n", "o", "d", "o", "t", "\n", "c", ".", "e", "@", "1">>),
   TextFile(<<"n", "o", "d", "o", "t">>),
   TextFile(<<"a", ".", "b", "@", "1", "\n", "\n", "a", ".", "b", "@", "1", "\n">>),
   TextFile(<<>>),
   TextFile(<<"[", "a", ".", "b">>),
   BadJsonFile,
   JsonFile(JStr(<<"a", ".", "b">>)),
   JsonFile(Descriptor(JStr(<<"a", ".", "b">>), Some(JStr(<<"1">>)), Some(Meta(JStr(<<"w", "e", "b">>))))),
   JsonFile(JArr(<<Descriptor(JStr(<<"c", ".", "e">>), None, Some(Meta(JStr(<<"u", "n", "d", "e", "f", "i", "n", "e", "d">>)))),
                   Descriptor(JStr(<<"n", "o", "d", "o", "t">>), Some(JStr(<<"1">>)), None),
                   Descriptor(JStr(<<"a", ".", "b">>), Some(JNum), Some(JStr(<<"w", "e", "b">>))),
                   JObj([k \in {"version"} |-> JStr(<<"1">>)]),
                   Descriptor(JStr(<<"c", ".", "e">>), None, Some(Meta(JStr(<<"n", "o", "n", "e">>))))>>))}

\* the file systems of the crafted inputs: no file, or one at "f" or "h/f"
CraftedFs ==
  {EmptyFs} \cup {[q \in {path} |-> file] : path \in {<<"f">>, <<"h", "/", "f">>}, file \in CraftedFiles}

InitParse ==
  /\ cmd = "extension"
  /\ \/ /\ argv \in {<<t>> : t \in Strs(TokenChars, MaxLen)}
        /\ fs = EmptyFs
     \/ /\ argv \in UNION {[1..n -> CraftedTokens] : n \in 1..MaxTokens}
        /\ fs \in CraftedFs
  /\ cached = None
  /\ market = NoAnswer
  /\ enc = <<>>
  /\ sargs = NoServerArgs
  /\ feed = NoFeed
  /\ dispo = None
  /\ InitCommon

\* list_extensions applied to each input
SpecParse == InitParse /\ [][ListExtensions]_vars

(***************************************************************************)
(* Extension::query_version on its own, over a wide set of answers         *)
(***************************************************************************)
QueryVersions == {None, Some(<<"1">>), Some(<<"2">>)}
QueryPlatforms == {None, Some(<<"w", "e", "b">>), Some(<<"l", "i", "n", "u", "x", "-", "x", "6", "4">>)}

\* the version entries of an answer
Entries == {Entry(v, t) : v \in QueryVersions, t \in QueryPlatforms}

\* the answers of the marketplace
Answers ==
  {NoAnswer, [ok |-> TRUE, versions |-> None]}
    \cup {[ok |-> TRUE, versions |-> Some(x)] :
            x \in UNION {[1..n -> Entries] : n \in 0..MaxVersions}}

InitQuery ==
  /\ cmd = "extension"
  /\ argv = <<>>
  /\ cached = None
  /\ market \in Answers
  /\ enc = <<>>
  /\ fs = EmptyFs
  /\ pc = "query"
  /\ extensions \in {<<Extension(<<"a">>, <<"b">>, v, t)>> : v \in QueryVersions, t \in QueryPlatforms}
  /\ idx = 1
  /\ loc = LocInit
  /\ result = Err
  /\ failed = <<>>
  /\ report = NoReport
  /\ netcalls = <<>>
  /\ deleted = {}
  /\ fsAtCall = fs
  /\ outcomes = <<>>
  /\ failStep = "none"
  /\ sargs = NoServerArgs
  /\ feed = NoFeed
  /\ dispo = None
  /\ srv = SrvInit
  /\ calls = <<>>

\* query_version called on each specifier and answer
SpecQuery == InitQuery /\ [][QueryVersion]_vars


(***************************************************************************)
(* Properties of Extension::query_version (SpecQuery)                      *)
(***************************************************************************)
\* query_version has returned
QueryDone == pc \in {"cache_check", "returned"} /\ netcalls = <<"query">>

\* the version entries of the answer, none when the query failed or the
\* record has no "versions" array
AnswerEntries ==
  IF market.ok /\ market.versions.some THEN market.versions.val ELSE <<>>

\* entry e has a version field that the specifier's version pin, if any, equals
VersionMatches(e) ==
  e.version.some /\ (self.version.some => e.version.val = self.version.val)

\* the entries with a matching version
VersionMatching == {i \in 1..Len(AnswerEntries) : VersionMatches(AnswerEntries[i])}

PlatformFree ==
  {i \in VersionMatching : ~AnswerEntries[i].targetPlatform.some}

PlatformCompatible ==
  {i \in VersionMatching :
     \/ ~AnswerEntries[i].targetPlatform.some
     \/ AnswerEntries[i].targetPlatform = self.platform}

\* C2 as stated: with platform p pinned, every successful result carries
\* platform p, never an absent platform.
C2_ResultCarriesPinnedPlatform ==
  (QueryDone /\ self.platform.some /\ result.ok) => result.val[2] = self.platform

\* C2 amended: with platform p pinned, the entry taken is the first with a
\* matching version whose targetPlatform is absent or equals p; only an entry
\* with a different targetPlatform is passed over on account of the platform,
\* and the result carries the taken entry's own targetPlatform: p, or none.
C2_FirstCompatibleTaken ==
  (QueryDone /\ self.platform.some) =>
    IF PlatformCompatible = {} THEN ~result.ok
    ELSE /\ result.ok
         /\ result.val = <<AnswerEntries[Min(PlatformCompatible)].version,
                           AnswerEntries[Min(PlatformCompatible)].targetPlatform>>

\* C2's case: a platform is pinned, an entry of another platform was passed
\* over and the entry taken has no targetPlatform
C2_Witness ==
  /\ QueryDone /\ self.platform.some /\ result.ok
  /\ result.val[2] = None
  /\ Min(VersionMatching) < Min(PlatformCompatible)


(***************************************************************************)
(* Properties of Extension::download and the two fetches (Spec)            *)
(***************************************************************************)
\* Extension::download has returned to the loop
DownloadReturned == cmd = "extension" /\ pc = "returned"

\* the call is one C3 speaks of: cached is true or unset, the platform is
\* absent or accepted, and the destination existed when the call started
CachedHit ==
  /\ DownloadReturned
  /\ cached \in {None, Some(TRUE)}
  /\ check_platform(self)
  /\ output_file \in DOMAIN fsAtCall

\* C3 as stated: such a call reports "skipped" and makes no network call,
\* whether or not the version is pinned.
C3_SkippedWithoutNetwork ==
  CachedHit => (result = Ok(FALSE) /\ netcalls = <<>>)

\* C3 amended: such a call never starts a transfer and changes no file; with
\* a pinned version it makes no network call and reports "skipped"; without
\* one it makes exactly one marketplace query first, reports "skipped" when
\* the query resolves a version and returns the query's error otherwise.
C3_SkippedWithoutTransfer ==
  CachedHit =>
    /\ fs = fsAtCall
    /\ IF self.version.some
       THEN netcalls = <<>> /\ result = Ok(FALSE)
       ELSE /\ netcalls = <<"query">>
            /\ IF query_version(self, market).ok
               THEN result = Ok(FALSE) ELSE ~result.ok

\* C3's case: a cached call without a pinned version found its destination
\* present and reported "skipped" after the query
C3_Witness ==
  CachedHit /\ ~self.version.some /\ result = Ok(FALSE) /\ netcalls = <<"query">>

\* the statements inside download_extension, and inside download_release_file
InExtFetch ==
  cmd = "extension" /\ pc \in {"curl", "read_head", "read_body", "create", "write",
                               "rm_body", "rm_head", "returned"}
InReleaseFetch ==
  cmd = "server" /\ pc \in {"release_mkdir", "release_curl", "release_rename",
                            "release_rm_head", "release_returned"}

\* path p is absent, holds what it held when the call started, or holds the
\* complete bytes
DestinationWhole(p, bytes) ==
  \/ p \notin DOMAIN fs
  \/ p \in DOMAIN fsAtCall /\ fs[p] = fsAtCall[p]
  \/ fs[p] = DataFile(bytes)

\* C4 as stated: in every state of a fetch the destination is absent, holds
\* what it held before the call, or holds the complete final bytes.
C4_DestinationNeverPartial ==
  /\ InExtFetch => DestinationWhole(output_file, Data)
  /\ InReleaseFetch => DestinationWhole(rel_path \o archive_ext(dispo), WireBody(enc))

\* download_extension, or download_release_file, has returned
ExtFetchReturned ==
  DownloadReturned /\ netcalls # <<>> /\ netcalls[Len(netcalls)] = "transfer"
ReleaseFetchReturned == cmd = "server" /\ pc = "release_returned"

\* the two temporary files of the fetch that returned
TempFiles ==
  IF cmd = "extension" THEN {body_file, head_file} ELSE {rel_body, rel_head}
TempBody == IF cmd = "extension" THEN body_file ELSE rel_body
TempHead == IF cmd = "extension" THEN head_file ELSE rel_head

\* no temporary file was removed, and those that existed are still there
TempFilesKept ==
  /\ deleted = {}
  /\ \A p \in TempFiles : p \in DOMAIN fsAtCall => p \in DOMAIN fs

\* C8 as stated: after success neither temporary file exists; after any
\* error the function has removed neither.
C8_TempFilesKeptOnAnyError ==
  (ExtFetchReturned \/ ReleaseFetchReturned) =>
    IF result.ok THEN TempFiles \cap DOMAIN fs = {} ELSE TempFilesKept

\* C8 amended: after success neither temporary file exists; after an error
\* of the transfer or of any step up to and including the removal (or
\* rename) of the body file, the function has removed neither; after an
\* error of the last step, the removal of the header file, the body file is
\* already removed (or renamed to the destination) and the header file is
\* still there.
C8_TempFilesKeptUntilBodyGone ==
  (ExtFetchReturned \/ ReleaseFetchReturned) =>
    IF result.ok THEN TempFiles \cap DOMAIN fs = {}
    ELSE IF failStep \in {"rm_head", "release_rm_head"}
    THEN deleted = {TempBody} /\ TempHead \in DOMAIN fs
    ELSE TempFilesKept

\* C8's case: a transfer failed part-way and both temporary files are there
C8_Witness ==
  /\ ExtFetchReturned \/ ReleaseFetchReturned
  /\ ~result.ok /\ failStep = "curl"
  /\ TempFiles \subseteq DOMAIN fs
  /\ TempBody \notin DOMAIN fsAtCall


(***************************************************************************)
(* Properties of download_extensions (Spec)                                *)
(***************************************************************************)
RECURSIVE FailedNames(_)
\* the names of the specifiers whose download returned an error, in the
\* order of the attempts
FailedNames(done) ==
  IF done = <<>> THEN <<>>
  ELSE (IF Head(done).what = "failed"
        THEN <<ExtName(extensions[Head(done).idx])>> ELSE <<>>)
       \o FailedNames(Tail(done))

\* the list the loop runs over is strictly increasing in canonical name
SortedByName(list) ==
  \A i \in 1..(Len(list) - 1) : StrLess(ExtName(list[i]), ExtName(list[i + 1]))

\* the loop has ended
LoopEnded == cmd = "extension" /\ pc \in {"report", "done"}

\* the attempts so far are the specifiers 1, 2, ... in list order, each once,
\* and the failure list holds exactly the names of those that failed
AttemptsInOrder ==
  cmd = "extension" =>
    /\ \A i \in 1..Len(outcomes) : outcomes[i].idx = i
    /\ Len(outcomes) <= Len(extensions)
    /\ SortedByName(extensions)
    /\ failed = FailedNames(outcomes)
    /\ LoopEnded => Len(outcomes) = Len(extensions)
    /\ pc = "done" => report = ReportOf(FailedNames(outcomes))

\* the statements yet to run, as a number that every step lowers
StepsLeft ==
  IF pc = "start"
  THEN 100 * (Len(list_extensions(argv, fs).list) + 2)
  ELSE IF cmd = "extension"
  THEN 100 * (Len(extensions) + 1 - idx)
       + (CASE pc = "loop" -> 50
            [] pc = "check_platform" -> 40
            [] pc = "query" -> 38
            [] pc = "cache_check" -> 36
            [] pc = "mkdir" -> 34
            [] pc = "curl" -> 32
            [] pc = "read_head" -> 30
            [] pc = "read_body" -> 28
            [] pc = "create" -> 26
            [] pc = "write" -> 10 + Len(loc.data) - Len(fs[output_file].bytes)
            [] pc = "rm_body" -> 8
            [] pc = "rm_head" -> 6
            [] pc = "returned" -> 4
            [] pc = "report" -> 2
            [] OTHER -> 0)
  ELSE CASE pc = "latest" -> 28
         [] pc = "set_commit" -> 26
         [] pc = "release_mkdir" -> 24
         [] pc = "release_curl" -> 22
         [] pc = "release_rename" -> 20
         [] pc = "release_rm_head" -> 18
         [] pc = "release_returned" -> 16
         [] pc = "prep_rmdir" -> 14
         [] pc = "prep_mkdir" -> 12
         [] pc = "prep_extract" -> 10
         [] pc = "server_end" -> 2
         [] OTHER -> 0

\* C5: download_extensions attempts the download of every specifier of the
\* sorted list exactly once and in order, whether or not an earlier one
\* failed; at the end the failure list is exactly the names of the failed
\* ones in processing order; and every run reaches the final report: once
\* list_extensions has returned and until the report is written, some
\* statement can run, and every statement that runs lowers the number of
\* statements left.
C5_EveryAttemptedFailuresListed ==
  /\ []AttemptsInOrder
  /\ []((cmd = "extension" /\ pc \notin {"start", "done"}) => ENABLED Next)
  /\ [][StepsLeft' < StepsLeft /\ StepsLeft' >= 0]_vars

\* C5's case: the loop ended after a failure followed by a success, and the
\* failure list holds the one name
C5_Witness ==
  /\ cmd = "extension" /\ pc = "done"
  /\ Len(outcomes) = 2
  /\ outcomes[1].what = "failed" /\ outcomes[2].what = "downloaded"
  /\ Len(failed) = 1

\* the outcomes of the attempts, by position
OutcomeOf == [i \in 1..Len(outcomes) |-> outcomes[i].what]

\* the report download_extensions writes when the outcomes are o
ReportFor(o) ==
  ReportOf(FailedNames([i \in 1..Len(extensions) |-> [idx |-> i, what |-> o[i]]]))

\* C7 as stated: the final report tells, for every specifier, which of the
\* three outcomes occurred: no other assignment of outcomes to the
\* specifiers would have produced the same report.
C7_ReportTellsOutcomes ==
  (cmd = "extension" /\ pc = "done") =>
    \A o \in [1..Len(extensions) -> {"skipped", "downloaded", "failed"}] :
      ReportFor(o) = report => o = OutcomeOf

(***************************************************************************)
(* Properties of download_server (Spec)                                    *)
(***************************************************************************)
\* the calls of one stage
CallsOf(stage) == {i \in 1..Len(calls) : calls[i].stage = stage}

\* the stage a failure belongs to
FailedStage ==
  IF failStep = "latest" THEN {"get_latest_release"}
  ELSE IF failStep \in {"curl"} \cup SrvFsSteps THEN {"download_release_file"}
  ELSE {"prepare_release_dir", "extract_tgz", "extract_zip"}

\* C6: the latest-commit query runs exactly when no commit was supplied;
\* download_release_file starts only with a commit obtained, the supplied one
\* or the first of the feed; prepare_release_dir is called only after
\* download_release_file succeeded, with the archive path it returned; and
\* once a stage has failed, no later stage is called.
C6_StagesChained ==
  cmd = "server" =>
    /\ CallsOf("get_latest_release") # {} => ~sargs.commit.some
    /\ (pc \notin {"start", "latest"} /\ ~sargs.commit.some)
         => Cardinality(CallsOf("get_latest_release")) = 1
    /\ \A i \in CallsOf("download_release_file") :
         /\ sargs.commit.some => calls[i].arg[1] = sargs.commit.val
         /\ ~sargs.commit.some =>
              /\ feed.ok /\ feed.commits # <<>>
              /\ calls[i].arg[1] = Head(feed.commits)
              /\ i > 1 /\ calls[i - 1].stage = "get_latest_release"
    /\ \A i \in CallsOf("prepare_release_dir") :
         /\ i > 1 /\ calls[i - 1].stage = "download_release_file"
         /\ calls[i].arg[2] = rel_path \o archive_ext(dispo)
         /\ calls[i].arg[2] \in DOMAIN fs
         /\ {rel_body, rel_head} \cap DOMAIN fs = {}
         /\ "transfer" \in {netcalls[j] : j \in 1..Len(netcalls)}
    /\ failStep # "none" =>
         /\ calls # <<>>
         /\ calls[Len(calls)].stage \in FailedStage
         /\ pc \in {"release_returned", "server_end", "done"}
    /\ \A stage \in {"get_latest_release", "download_release_file", "prepare_release_dir"} :
         Cardinality(CallsOf(stage)) <= 1

\* C6's case: no commit was supplied, the feed gave one, the download
\* succeeded and prepare_release_dir was called with the archive
C6_Witness ==
  /\ cmd = "server" /\ pc = "done" /\ result.ok
  /\ ~sargs.commit.some
  /\ Len(calls) = 4
  /\ calls[3].stage = "prepare_release_dir"
  /\ EndsWith(calls[3].arg[2], <<".", "z", "i", "p">>)


(***************************************************************************)
(* Properties of list_extensions (SpecParse)                               *)
(***************************************************************************)
\* list_extensions has returned
Listed == cmd = "extension" /\ pc = "loop"

\* s is pub.pkg@ver=plat: four non-empty parts, the publisher free of the
\* three separators, no blank at either end and no .vsix suffix
IsFullForm(s) ==
  /\ s = Trim(s)
  /\ ~EndsWith(s, Vsix)
  /\ \E i, j, k \in 1..Len(s) :
       /\ 1 < i /\ i + 1 < j /\ j + 1 < k /\ k < Len(s)
       /\ s[i] = "." /\ s[j] = "@" /\ s[k] = "="
       /\ \A n \in 1..(i - 1) : s[n] \notin {".", "@", "="}

\* C9: an inline token of the form pub.pkg@ver=plat is parsed into one
\* specifier whose canonical name is the token itself.
C9_RoundTrip ==
  (Listed /\ Len(argv) = 1 /\ ShellExpand(argv[1]) \notin DOMAIN fs
     /\ IsFullForm(argv[1]))
    => (Len(extensions) = 1 /\ ExtName(extensions[1]) = argv[1])

\* C9's case: a token of the form was parsed whose version holds a '.' and
\* whose platform holds a '@'
C9_Witness ==
  /\ Listed /\ Len(argv) = 1 /\ IsFullForm(argv[1])
  /\ Len(extensions) = 1
  /\ extensions[1].version.some /\ Contains(extensions[1].version.val, <<".">>)
  /\ extensions[1].platform.some /\ Contains(extensions[1].platform.val, <<"@">>)

\* the input reads no JSON: every token is inline or names a text file
\* that does not start with '[' or '{'
PlainInput ==
  \A n \in 1..Len(argv) :
    ShellExpand(argv[n]) \in DOMAIN fs =>
      /\ fs[ShellExpand(argv[n])].kind = "text"
      /\ ~TokenPanics(argv[n], fs)

\* the inline tokens and the lines of the line files of the input
InputLines ==
  UNION {IF ShellExpand(argv[n]) \in DOMAIN fs
         THEN {SplitLines(fs[ShellExpand(argv[n])].text)[m] :
                 m \in 1..Len(SplitLines(fs[ShellExpand(argv[n])].text))}
         ELSE {ShellExpand(argv[n])} : n \in 1..Len(argv)}

\* the publisher/package part of a line, without its blanks and .vsix
\* suffix: what comes before the first '=' or '@'
PublisherPackagePart(line) ==
  LET t == StripVsix(Trim(line))
      stops == {i \in 1..Len(t) : t[i] \in {"=", "@"}}
  IN  IF stops = {} THEN t ELSE SubSeq(t, 1, Min(stops) - 1)

Dotless(line) == ~Contains(PublisherPackagePart(line), <<".">>)

\* C10: list_extensions does not fail on a token or line whose
\* publisher/package part holds no '.', emits nothing for it, and still
\* emits every other token and line: the names returned are exactly the
\* other tokens and lines, without their blanks and .vsix suffix.
C10_DotlessDropped ==
  (cmd = "extension" /\ pc # "start" /\ PlainInput) =>
    /\ pc = "loop"
    /\ {ExtName(extensions[i]) : i \in 1..Len(extensions)}
         = {StripVsix(Trim(l)) : l \in {x \in InputLines : ~Dotless(x)}}

\* C10's case: a line file with a dotless line between two others, both of
\* which were emitted
C10_Witness ==
  /\ Listed /\ PlainInput
  /\ \E n \in 1..Len(argv) :
       /\ ShellExpand(argv[n]) \in DOMAIN fs
       /\ LET lines == SplitLines(fs[ShellExpand(argv[n])].text)
          IN  /\ Len(lines) = 3
              /\ ~Dotless(lines[1]) /\ Dotless(lines[2]) /\ ~Dotless(lines[3])
  /\ Len(extensions) >= 2


(***************************************************************************)
(* Properties of the list list_extensions returns (SpecParse)              *)
(***************************************************************************)
\* the canonical names of a list of specifiers
NamesOf(list) == {ExtName(list[i]) : i \in 1..Len(list)}

\* the token names an existing file of the given kind
NamesFile(token, kind) ==
  /\ ShellExpand(token) \in DOMAIN fs
  /\ fs[ShellExpand(token)].kind = kind

\* C11: the list list_extensions returns is strictly increasing in canonical
\* name, so it is sorted and holds no name twice, and it holds exactly the
\* names that the tokens, lines and descriptors of the input gave: the
\* entries of one name, from whatever sources, are collapsed to one.
C11_StrictlyIncreasing ==
  Listed =>
    /\ SortedByName(extensions)
    /\ NamesOf(extensions) = NamesOf(Gather(argv, fs))

\* C11's case: an inline token and a JSON descriptor gave the same name, a
\* second name came with them, and the list returned holds each once
C11_Witness ==
  /\ Listed
  /\ \E m, n \in 1..Len(argv) :
       /\ ShellExpand(argv[m]) \notin DOMAIN fs
       /\ NamesFile(argv[n], "json")
       /\ NamesOf(ParseToken(argv[m], fs)) \cap NamesOf(ParseToken(argv[n], fs)) # {}
  /\ Len(Gather(argv, fs)) > Len(extensions)
  /\ Len(extensions) >= 2

\* C12 as stated: every specifier list_extensions returns has a non-empty
\* publisher and a non-empty package.
C12_PartsNonEmpty ==
  Listed =>
    \A i \in 1..Len(extensions) :
      extensions[i].publisher # <<>> /\ extensions[i].package # <<>>

\* the descriptors of a JSON value: the items of an array, an object itself
DescriptorsOf(value) ==
  IF value.t = "array" THEN {value.a[i] : i \in 1..Len(value.a)}
  ELSE IF value.t = "object" THEN {value} ELSE {}

\* the platform C13 gives a descriptor: the string at metadata.targetPlatform
\* unless it is "undefined" or "none", and nothing otherwise
NestedTargetPlatform(d) ==
  LET m == JGet(d, "metadata")
      tp == IF m.some THEN JGet(m.val, "targetPlatform") ELSE None
      str == IF tp.some THEN JAsStr(tp.val) ELSE None
  IN  IF str.some /\ str.val \notin {<<"u", "n", "d", "e", "f", "i", "n", "e", "d">>,
                                     <<"n", "o", "n", "e">>}
      THEN str ELSE None

\* C13 as stated: every specifier read from a JSON file has the platform of
\* one of the file's descriptors as metadata.targetPlatform gives it: absent
\* for "undefined" and "none", the string itself otherwise, and never a
\* value of another field.
C13_PlatformOnlyFromNestedField ==
  (Listed /\ Len(argv) = 1 /\ NamesFile(argv[1], "json")) =>
    \A i \in 1..Len(extensions) :
      \E d \in DescriptorsOf(fs[ShellExpand(argv[1])].value) :
        /\ parse_ext_dict(d).some
        /\ extensions[i].publisher = parse_ext_dict(d).val.publisher
        /\ extensions[i].package = parse_ext_dict(d).val.package
        /\ extensions[i].version = parse_ext_dict(d).val.version
        /\ extensions[i].platform = NestedTargetPlatform(d)


(***************************************************************************)
(* Properties of the splitting of an inline token (SpecParse)              *)
(***************************************************************************)
\* one inline token was read and gave a specifier
OneInlineParsed ==
  /\ Listed /\ Len(argv) = 1
  /\ ShellExpand(argv[1]) \notin DOMAIN fs
  /\ Len(extensions) = 1

\* the token as it is split: without its blanks and its .vsix suffix
Stripped == StripVsix(Trim(ShellExpand(argv[1])))

\* s cut at position k: the texts on either side of the character at k
Before(s, k) == SubSeq(s, 1, k - 1)
After(s, k) == SubSeq(s, k + 1, Len(s))

\* k is the position of the last (of the first) mark of s
IsLast(s, mark, k) ==
  /\ k \in 1..Len(s) /\ s[k] = mark
  /\ \A n \in (k + 1)..Len(s) : s[n] # mark
IsFirst(s, mark, k) ==
  /\ k \in 1..Len(s) /\ s[k] = mark
  /\ \A n \in 1..(k - 1) : s[n] # mark

\* the part before the last (the first) mark of s, s itself without a mark
BeforeLast(s, mark) ==
  IF \E k \in 1..Len(s) : s[k] = mark
  THEN Before(s, CHOOSE k \in 1..Len(s) : IsLast(s, mark, k)) ELSE s
BeforeFirst(s, mark) ==
  IF \E k \in 1..Len(s) : s[k] = mark
  THEN Before(s, CHOOSE k \in 1..Len(s) : IsFirst(s, mark, k)) ELSE s

\* the part after the last (the first) mark of s, if s has the mark
AfterLast(s, mark) ==
  IF \E k \in 1..Len(s) : s[k] = mark
  THEN Some(After(s, CHOOSE k \in 1..Len(s) : IsLast(s, mark, k))) ELSE None
AfterFirst(s, mark) ==
  IF \E k \in 1..Len(s) : s[k] = mark
  THEN Some(After(s, CHOOSE k \in 1..Len(s) : IsFirst(s, mark, k))) ELSE None

\* C14 as stated: the platform of an inline token is the text after its last
\* '=', and the version the text after the last '@' of what is before that
\* '='.
C14_SplitFromRight ==
  OneInlineParsed =>
    /\ extensions[1].platform = AfterLast(Stripped, "=")
    /\ extensions[1].version = AfterLast(BeforeLast(Stripped, "="), "@")

\* C14 amended: the platform of an inline token is the text after its first
\* '=', further '=' and '@' included, and the version is the text between
\* the first '@' before that '=' and that '=': both splits are made at the
\* first occurrence of the mark.
C14_SplitAtFirst ==
  OneInlineParsed =>
    /\ extensions[1].platform = AfterFirst(Stripped, "=")
    /\ extensions[1].version = AfterFirst(BeforeFirst(Stripped, "="), "@")

\* C14's case: a token with two '@' and two '=' was read: the version holds
\* the second '@' and the platform the second '='
C14_Witness ==
  /\ OneInlineParsed
  /\ Cardinality(Positions(Stripped, "=")) = 2
  /\ Cardinality(Positions(BeforeFirst(Stripped, "="), "@")) = 2
  /\ extensions[1].version.some /\ Contains(extensions[1].version.val, <<"@">>)
  /\ extensions[1].platform.some /\ Contains(extensions[1].platform.val, <<"=">>)


(***************************************************************************)
(* Properties of prepare_release_dir (Spec)                                *)
(***************************************************************************)
\* prepare_release_dir has been called with an archive whose name ends in
\* neither .tar.gz nor .zip
PrepareOnUnknownArchive ==
  /\ cmd = "server"
  /\ CallsOf("prepare_release_dir") # {}
  /\ ~EndsWith(srv.archive_file, <<".", "t", "a", "r", ".", "g", "z">>)
  /\ ~EndsWith(srv.archive_file, <<".", "z", "i", "p">>)

\* C15 as stated: in a call of prepare_release_dir on such an archive, and
\* after the error it returns, no extractor has been called and a directory
\* that existed at <output_dir>/bin/<commit> is there with its contents.
C15_UnknownArchiveLeavesDir ==
  PrepareOnUnknownArchive =>
    /\ CallsOf("extract_tgz") \cup CallsOf("extract_zip") = {}
    /\ commit_dir(srv.commit) \in DOMAIN fsAtCall =>
         /\ commit_dir(srv.commit) \in DOMAIN fs
         /\ fs[commit_dir(srv.commit)] = fsAtCall[commit_dir(srv.commit)]

=============================================================================
